---- MODULE Spec2Model ----
(***************************************************************************)
(* sphinx_term_validator: the six text rules, the diagnostic's location    *)
(* resolution, the NG word dictionary loader and the doctree-resolved      *)
(* handler.                                                                *)
(*                                                                         *)
(* A string is a sequence of characters; a character is a TLA+ string      *)
(* naming one code point:                                                  *)
(*   "a" "h" "t" "m" "l" "H"   ASCII letters                               *)
(*   "1" "2"                   ASCII digits                                *)
(*   "(" ")" "!" "?" "." "," "#" "|" "*" "-" ">" ":" "bq" (backquote)      *)
(*                             ASCII punctuation                           *)
(*   " " "nl" "tab"            space, line feed, tab                       *)
(*   "W"  hiragana A (U+3042)      "X"  a CJK ideograph (U+6F22)           *)
(*   "KA" katakana A (U+30A2)      "K"  half-width katakana A (U+FF71)     *)
(*   "Fa" fullwidth latin a (U+FF41)                                       *)
(*   "FULL(" "FULL)" "FULL!" "FULL?"  fullwidth forms U+FF08/09/01/1F      *)
(*   "FULL." "FULL,"           ideographic full stop / comma U+3002/3001   *)
(*   "cb" combining acute accent (U+0301)                                  *)
(* A string element that is none of these is an opaque run of ASCII text   *)
(* (a fixed message of the program).                                       *)
(***************************************************************************)
EXTENDS Integers, Sequences, FiniteSets, TLC

None == 0 - 1

Letters == {"a", "h", "t", "m", "l", "H"}
Digits == {"1", "2"}
WideScript == {"W", "X", "KA"}
WideChars == WideScript \cup {"Fa", "FULL(", "FULL)", "FULL!", "FULL?", "FULL.", "FULL,"}
Combining == {"cb"}
Whitespace == {" ", "nl", "tab"}

\* ---------------------------------------------------------------- strings

RECURSIVE Concat(_)
Concat(ss) == IF ss = <<>> THEN <<>> ELSE Head(ss) \o Concat(Tail(ss))

StartsAt(s, i, sub) ==
    /\ i + Len(sub) <= Len(s)
    /\ \A k \in 1..Len(sub) : s[i + k] = sub[k]

\* str.find: 0-based index of the first occurrence, -1 when there is none
str_find(s, sub) ==
    LET hits == {i \in 0..Len(s) : StartsAt(s, i, sub)}
    IN  IF hits = {} THEN 0 - 1
        ELSE CHOOSE i \in hits : \A j \in hits : i <= j

\* str.replace: every non-overlapping occurrence, left to right
RECURSIVE replace_from(_, _, _, _)
replace_from(s, i, old, new) ==
    IF i >= Len(s) THEN <<>>
    ELSE IF old # <<>> /\ StartsAt(s, i, old)
         THEN new \o replace_from(s, i + Len(old), old, new)
         ELSE <<s[i + 1]>> \o replace_from(s, i + 1, old, new)

str_replace(s, old, new) == replace_from(s, 0, old, new)

\* str.strip
RECURSIVE lstrip(_)
lstrip(s) == IF s # <<>> /\ Head(s) \in Whitespace THEN lstrip(Tail(s)) ELSE s

RECURSIVE rstrip(_)
rstrip(s) ==
    IF s # <<>> /\ s[Len(s)] \in Whitespace THEN rstrip(SubSeq(s, 1, Len(s) - 1)) ELSE s

str_strip(s) == rstrip(lstrip(s))

\* str.splitlines: the line feed ends a line; no empty last line
RECURSIVE splitlines(_)
splitlines(s) ==
    IF s = <<>> THEN <<>>
    ELSE LET k == str_find(s, <<"nl">>)
         IN  IF k < 0 THEN <<s>>
             ELSE <<SubSeq(s, 1, k)>> \o splitlines(SubSeq(s, k + 2, Len(s)))

\* str.lower
lower_char(c) == IF c = "H" THEN "h" ELSE c
str_lower(s) == [i \in 1..Len(s) |-> lower_char(s[i])]

\* unicodedata.category(t)[0] in ('L', 'N')
IsLetterOrNumber(c) == c \in Letters \cup Digits \cup WideScript \cup {"K", "Fa"}

\* unicodedata.normalize('NFKC', t) of one character
NFKC(c) == IF c = "K" THEN "KA" ELSE IF c = "Fa" THEN "a" ELSE c

\* docutils.utils.column_width: east asian width W/F counts 2, every other
\* 1, and each combining character is taken off again
RECURSIVE column_width(_)
column_width(text) ==
    IF text = <<>> THEN 0
    ELSE (IF Head(text) \in WideChars THEN 2 ELSE 1)
         - (IF Head(text) \in Combining THEN 1 ELSE 0)
         + column_width(Tail(text))

\* end of the maximal run of characters of class S that starts at 0-based i
RECURSIVE RunEnd(_, _, _)
RunEnd(s, i, S) == IF i < Len(s) /\ s[i + 1] \in S THEN RunEnd(s, i + 1, S) ELSE i

Slice(s, i, j) == SubSeq(s, i + 1, j)

\* ------------------------------------------------- compiled re objects

FirstIndexFrom(s, i, c) ==
    LET hits == {j \in i..(Len(s) - 1) : s[j + 1] = c}
    IN  IF hits = {} THEN 0 - 1
        ELSE CHOOSE j \in hits : \A k \in hits : j <= k

\* re.compile(r'\(([^)]*)\)').findall: the inner strings, left to right
RECURSIVE find_parethesis_from(_, _)
find_parethesis_from(text, i) ==
    IF i >= Len(text) THEN <<>>
    ELSE LET j == IF text[i + 1] = "(" THEN FirstIndexFrom(text, i + 1, ")") ELSE 0 - 1
         IN  IF j >= 0
             THEN <<Slice(text, i + 1, j)>> \o find_parethesis_from(text, j + 1)
             ELSE find_parethesis_from(text, i + 1)

find_parethesis(text) == find_parethesis_from(text, 0)

Marks == {"!", "?"}

\* re.compile(r'([hiragana-katakana-cjk]+)([!?]+)').findall: <<base, mark>> pairs
RECURSIVE find_question_exclamation_from(_, _)
find_question_exclamation_from(text, i) ==
    IF i >= Len(text) THEN <<>>
    ELSE LET e == RunEnd(text, i, WideScript)
             m == RunEnd(text, e, Marks)
         IN  IF e > i /\ m > e
             THEN << <<Slice(text, i, e), Slice(text, e, m)>> >>
                  \o find_question_exclamation_from(text, m)
             ELSE find_question_exclamation_from(text, i + 1)

find_question_exclamation(text) == find_question_exclamation_from(text, 0)

\* `$`: at the end of the string, or just before a line feed that ends it
AtEol(text, i) == i = Len(text) \/ (i = Len(text) - 1 /\ text[Len(text)] = "nl")

\* re.sub of `([^excl])<mark><tail>` by `\1<repl>`; tail "eol" stands for `$`
RECURSIVE sub_mark_from(_, _, _, _, _, _)
sub_mark_from(text, i, excl, mark, tail, repl) ==
    IF i >= Len(text) THEN <<>>
    ELSE LET hit == /\ text[i + 1] \notin excl
                    /\ i + 1 < Len(text)
                    /\ text[i + 2] = mark
                    /\ IF tail = "eol" THEN AtEol(text, i + 2)
                       ELSE i + 2 < Len(text) /\ text[i + 3] = tail
             used == IF tail = "eol" THEN 2 ELSE 3
         IN  IF hit
             THEN <<text[i + 1]>> \o repl
                  \o sub_mark_from(text, i + used, excl, mark, tail, repl)
             ELSE <<text[i + 1]>> \o sub_mark_from(text, i + 1, excl, mark, tail, repl)

NotBeforeDot == Digits \cup {",", "."}
NotBeforeComma == {",", "."}

sub_dot_space(repl, text) == sub_mark_from(text, 0, NotBeforeDot, ".", " ", repl)
sub_dot_newline(repl, text) == sub_mark_from(text, 0, NotBeforeDot, ".", "nl", repl)
sub_dot_eol(repl, text) == sub_mark_from(text, 0, NotBeforeDot, ".", "eol", repl)
sub_comma_space(repl, text) == sub_mark_from(text, 0, NotBeforeComma, ",", " ", repl)
sub_comma_newline(repl, text) == sub_mark_from(text, 0, NotBeforeComma, ",", "nl", repl)
sub_comma_eol(repl, text) == sub_mark_from(text, 0, NotBeforeComma, ",", "eol", repl)

\* \w of a str pattern, and the class [\w.%=()+-] a delimiter must avoid
WordChars == Letters \cup Digits \cup WideScript \cup {"K", "Fa"}
NotDelimiter == WordChars \cup {".", "%", "=", "(", ")", "+", "-"}

\* re.compile(r'([^\w.%=()+-])(\d+)([A-Za-z]+)[^\d]').findall: the three
\* groups of each match. The letters are taken greedily; when no non-digit
\* follows them the last letter is given back to match the final [^\d].
RECURSIVE find_numofunit_from(_, _)
find_numofunit_from(text, i) ==
    IF i >= Len(text) THEN <<>>
    ELSE LET d == RunEnd(text, i + 1, Digits)
             l == RunEnd(text, d, Letters)
             start == text[i + 1] \notin NotDelimiter /\ d > i + 1 /\ l > d
         IN  IF start /\ l < Len(text) /\ text[l + 1] \notin Digits
             THEN << <<Slice(text, i, i + 1), Slice(text, i + 1, d), Slice(text, d, l)>> >>
                  \o find_numofunit_from(text, l + 1)
             ELSE IF start /\ l - d >= 2
             THEN << <<Slice(text, i, i + 1), Slice(text, i + 1, d), Slice(text, d, l - 1)>> >>
                  \o find_numofunit_from(text, l)
             ELSE find_numofunit_from(text, i + 1)

find_numofunit(text) == find_numofunit_from(text, 0)

\* ------------------------------------------------------- document tree
\* A tree is a sequence of node records; a node is its index, 0 is no node.
\* type: the docutils node class; text: the content of a Text node;
\* rawsource / line: the node's attributes of those names.

TextElement == {"paragraph", "emphasis", "literal", "literal_block", "raw", "comment"}

\* the attributes of a node built by the parser: none of those a marker carries
NoAttributes == [type |-> "", level |-> 0, source |-> "", lineno |-> None]

Node(type, parent, children, text, rawsource, line) ==
    [type |-> type, parent |-> parent, children |-> children, text |-> text,
     rawsource |-> rawsource, line |-> line, attributes |-> NoAttributes]

astext(tree, node) == tree[node].text

\* Python's `a or b`
py_or(a, b) == IF a # None /\ a # 0 THEN a ELSE b

\* ------------------------------------------------ ValidationErrorMessage

RECURSIVE find_block(_, _)
find_block(tree, node) ==
    IF node = 0 THEN 0
    ELSE IF tree[node].type \in TextElement THEN node
    ELSE find_block(tree, tree[node].parent)

\* the body of the loop over enumerate(lines), for line i, on the location so far
locate_line(loc, line, i, target_text) ==
    LET start_col == str_find(line, target_text)
    IN  IF start_col >= 0
        THEN [lineno |-> IF loc.lineno # None THEN loc.lineno + i ELSE loc.lineno,
              start_col |-> start_col + 1,
              end_col |-> start_col + 1 + Len(target_text)]
        ELSE loc

RECURSIVE locate_lines(_, _, _, _)
locate_lines(loc, lines, i, target_text) ==
    IF i >= Len(lines) THEN loc
    ELSE locate_lines(locate_line(loc, lines[i + 1], i, target_text), lines, i + 1, target_text)

set_location(tree, node, target_text) ==
    LET parent == tree[node].parent
        lineno == py_or(py_or(tree[node].line, tree[parent].line),
                        tree[tree[parent].parent].line)
        start == [lineno |-> lineno, start_col |-> None, end_col |-> None]
        block == find_block(tree, node)
    IN  IF block = 0 THEN start
        ELSE locate_lines(start, splitlines(tree[block].rawsource), 0, target_text)

ValidationErrorMessage(tree, error_type, node, target_text, suggestion_text) ==
    LET loc == set_location(tree, node, target_text)
    IN  [error_type |-> error_type, node |-> node, target_text |-> target_text,
         suggestion_text |-> suggestion_text, lineno |-> loc.lineno,
         start_col |-> loc.start_col, end_col |-> loc.end_col]

\* ---------------------------------------------------------------- rules

validate_half_width_katakana(tree, node) ==
    LET t == astext(tree, node)
        text == [i \in 1..Len(t) |-> IF IsLetterOrNumber(t[i]) THEN NFKC(t[i]) ELSE t[i]]
    IN  IF t # text
        THEN <<ValidationErrorMessage(tree, "Wide ascii, Wide number or Half kana",
                                      node, t, text)>>
        ELSE <<>>

\* one pass of the loop over the terms: <<text, msgs>> after term
parenthesis_step(tree, node, text, term) ==
    IF column_width(term) # Len(term)
    THEN LET new == str_replace(text, <<"(">> \o term \o <<")">>,
                                <<"FULL(">> \o term \o <<"FULL)">>)
         IN  <<new, <<ValidationErrorMessage(tree, "Half parenthesis include Wide string",
                                             node, text, new)>> >>
    ELSE <<text, <<>> >>

RECURSIVE parenthesis_loop(_, _, _, _)
parenthesis_loop(tree, node, text, terms) ==
    IF terms = <<>> THEN <<>>
    ELSE LET r == parenthesis_step(tree, node, text, Head(terms))
         IN  r[2] \o parenthesis_loop(tree, node, r[1], Tail(terms))

validate_parenthesis(tree, node) ==
    parenthesis_loop(tree, node, astext(tree, node), find_parethesis(astext(tree, node)))

wide_mark_of(mark) ==
    [i \in 1..Len(mark) |-> IF mark[i] = "!" THEN "FULL!" ELSE IF mark[i] = "?" THEN "FULL?" ELSE mark[i]]

RECURSIVE question_exclamation_loop(_, _)
question_exclamation_loop(text, found) ==
    IF found = <<>> THEN text
    ELSE LET base == Head(found)[1]
             mark == Head(found)[2]
         IN  question_exclamation_loop(
                 str_replace(text, base \o mark, base \o wide_mark_of(mark)), Tail(found))

question_exclamation_text(t) ==
    IF column_width(t) # Len(t)
    THEN question_exclamation_loop(t, find_question_exclamation(t))
    ELSE t

validate_question_exclamation(tree, node) ==
    LET text == question_exclamation_text(astext(tree, node))
    IN  IF text # astext(tree, node)
        THEN <<ValidationErrorMessage(tree, "Half \"!\", \"?\" after full-width char",
                                      node, astext(tree, node), text)>>
        ELSE <<>>

punctuation_mark_text(t) ==
    LET t1 == sub_dot_space(<<"FULL.">>, t)
        t2 == sub_dot_newline(<<"FULL.", "nl">>, t1)
        t3 == sub_dot_eol(<<"FULL.">>, t2)
        t4 == sub_comma_space(<<"FULL,">>, t3)
        t5 == sub_comma_newline(<<"FULL,", "nl">>, t4)
    IN  sub_comma_eol(<<"FULL,">>, t5)

\* variant: without the return on a text whose width is its length
validate_punctuation_mark_ungated(tree, node) ==
    LET t == astext(tree, node)
    IN  IF t = <<>> THEN <<>>
        ELSE IF punctuation_mark_text(t) # t
        THEN <<ValidationErrorMessage(tree, "ASCII punctuation mark",
                                      node, t, punctuation_mark_text(t))>>
        ELSE <<>>

validate_punctuation_mark(tree, node) ==
    LET t == astext(tree, node)
    IN  IF t = <<>> THEN <<>>
        ELSE IF column_width(t) = Len(t) THEN <<>>
        ELSE IF punctuation_mark_text(t) # t
        THEN <<ValidationErrorMessage(tree, "ASCII punctuation mark",
                                      node, t, punctuation_mark_text(t))>>
        ELSE <<>>

RECURSIVE space_in_number_of_unit_loop(_, _, _)
space_in_number_of_unit_loop(tree, node, found) ==
    IF found = <<>> THEN <<>>
    ELSE LET elem == Head(found)
         IN  (IF str_lower(elem[3]) # <<"h", "t", "m", "l">>
              THEN <<ValidationErrorMessage(tree, "Space in number of unit", node,
                         elem[1] \o elem[2] \o elem[3],
                         <<"Number of unit string need space before unit">>)>>
              ELSE <<>>)
             \o space_in_number_of_unit_loop(tree, node, Tail(found))

validate_space_in_number_of_unit(tree, node) ==
    IF astext(tree, node) = <<>> THEN <<>>
    ELSE space_in_number_of_unit_loop(tree, node, find_numofunit(astext(tree, node)))

\* ------------------------------------------------------ NG word rules
\* A dictionary pattern of the model is literal text with `|` between
\* alternatives, or holds an unbalanced `(`, which re.compile rejects.

RECURSIVE split_alternatives(_)
split_alternatives(ng) ==
    LET k == str_find(ng, <<"|">>)
    IN  IF k < 0 THEN <<ng>>
        ELSE <<SubSeq(ng, 1, k)>> \o split_alternatives(SubSeq(ng, k + 2, Len(ng)))

\* re.compile raises on a parenthesis that is not balanced
RECURSIVE paren_depth_ok(_, _)
paren_depth_ok(ng, depth) ==
    IF ng = <<>> THEN depth = 0
    ELSE IF Head(ng) = "(" THEN paren_depth_ok(Tail(ng), depth + 1)
    ELSE IF Head(ng) = ")" THEN depth > 0 /\ paren_depth_ok(Tail(ng), depth - 1)
    ELSE paren_depth_ok(Tail(ng), depth)

re_compile_fails(ng) == ~paren_depth_ok(ng, 0)

\* finder(text) of re.compile('(%s)' % ng).search: the leftmost match, and
\* at one place the first alternative that matches
re_search(alternatives, text) ==
    LET hits == {i \in 0..Len(text) :
                    \E a \in 1..Len(alternatives) : StartsAt(text, i, alternatives[a])}
    IN  IF hits = {} THEN [found |-> FALSE, group0 |-> <<>>]
        ELSE LET i == CHOOSE i \in hits : \A j \in hits : i <= j
                 as == {a \in 1..Len(alternatives) : StartsAt(text, i, alternatives[a])}
                 a == CHOOSE a \in as : \A b \in as : a <= b
             IN  [found |-> TRUE, group0 |-> alternatives[a]]

RECURSIVE ng_words_loop(_, _, _)
ng_words_loop(tree, node, words) ==
    IF words = <<>> THEN <<>>
    ELSE LET found == re_search(Head(words).finder, astext(tree, node))
         IN  (IF found.found
              THEN <<ValidationErrorMessage(tree, "NG word", node, found.group0,
                                            Head(words).good)>>
              ELSE <<>>)
             \o ng_words_loop(tree, node, Tail(words))

validate_ng_words(tree, node, words) ==
    IF astext(tree, node) = <<>> THEN <<>>
    ELSE ng_words_loop(tree, node, words)

\* --------------------------------------------------- dictionary loader
\* A file system maps a path to a file: whether it exists, and its lines,
\* each with its line feed.

Missing == [exists |-> FALSE, lines |-> <<>>]
File(lines) == [exists |-> TRUE, lines |-> lines]
BASEDIR_rule_dic == "rule.dic"

\* the filter of the generator: (line) and (not line.startswith('#')) and ('\t' in line)
is_rule_line(line) ==
    /\ line # <<>>
    /\ Head(line) # "#"
    /\ \E i \in 1..Len(line) : line[i] = "tab"

\* line.split('\t', 1), and the entry built of its two fields
split_rule_line(line) ==
    LET k == str_find(line, <<"tab">>)
    IN  <<SubSeq(line, 1, k), SubSeq(line, k + 2, Len(line))>>

rule_of_line(line) ==
    LET ng == str_strip(split_rule_line(line)[1])
        good == str_strip(split_rule_line(line)[2])
    IN  [finder |-> split_alternatives(ng), ng |-> ng, good |-> good]

RECURSIVE rules_of_lines(_)
rules_of_lines(lines) ==
    IF lines = <<>> THEN <<>>
    ELSE (IF is_rule_line(Head(lines)) THEN <<rule_of_line(Head(lines))>> ELSE <<>>)
         \o rules_of_lines(Tail(lines))

\* variant: the rules read are added to the ones held
ng_words_merged(old, loaded) == old \o loaded

\* the new value of NG_WORDS once the file is read
ng_words_assigned(old, loaded) == loaded

\* variant: a file that is not there is read as an empty dictionary
load_ng_word_dic_lenient(fs, old, ng_word_rule_file) ==
    LET rule_file == IF ng_word_rule_file = "None" THEN BASEDIR_rule_dic
                     ELSE ng_word_rule_file
        content == fs[rule_file].lines
    IN  IF \E i \in 1..Len(content) :
                    is_rule_line(content[i]) /\ re_compile_fails(rule_of_line(content[i]).ng)
        THEN [raised |-> "re.error", NG_WORDS |-> old]
        ELSE [raised |-> "", NG_WORDS |-> ng_words_assigned(old, rules_of_lines(content))]

\* load_ng_word_dic: the exception raised ("" for none) and NG_WORDS after
load_ng_word_dic(fs, old, ng_word_rule_file) ==
    LET rule_file == IF ng_word_rule_file = "None" THEN BASEDIR_rule_dic
                     ELSE ng_word_rule_file
        content == fs[rule_file].lines
    IN  IF ~fs[rule_file].exists
        THEN [raised |-> "FileNotFoundError", NG_WORDS |-> old]
        ELSE IF \E i \in 1..Len(content) :
                    is_rule_line(content[i]) /\ re_compile_fails(rule_of_line(content[i]).ng)
        THEN [raised |-> "re.error", NG_WORDS |-> old]
        ELSE [raised |-> "", NG_WORDS |-> ng_words_assigned(old, rules_of_lines(content))]

\* ------------------------------------------------------------ handler

VALIDATORS ==
    <<"term_validator_half_width_katakana",
      "term_validator_parenthesis",
      "term_validator_question_exclamation",
      "term_validator_punctuation_mark",
      "term_validator_space_in_number_of_unit",
      "term_validator_ng_words">>

\* VALIDATORS[k](node); validate_ng_words reads the module's NG_WORDS
call_validator(k, tree, node, words) ==
    CASE k = "term_validator_half_width_katakana" -> validate_half_width_katakana(tree, node)
      [] k = "term_validator_parenthesis" -> validate_parenthesis(tree, node)
      [] k = "term_validator_question_exclamation" -> validate_question_exclamation(tree, node)
      [] k = "term_validator_punctuation_mark" -> validate_punctuation_mark(tree, node)
      [] k = "term_validator_space_in_number_of_unit" -> validate_space_in_number_of_unit(tree, node)
      [] k = "term_validator_ng_words" -> validate_ng_words(tree, node, words)

\* variant: the keys come in sorted order, as from a dict without insertion order
enabled_validators_sorted(config) ==
    SelectSeq(<<VALIDATORS[1], VALIDATORS[6], VALIDATORS[2], VALIDATORS[4], VALIDATORS[3],
                VALIDATORS[5]>>, LAMBDA k : config[k])

\* [v for k, v in VALIDATORS.items() if app.config[k]]
enabled_validators(config) == SelectSeq(VALIDATORS, LAMBDA k : config[k])

Excluded == {"literal", "literal_block", "raw", "comment", "todo_node"}

RECURSIVE isdescendant(_, _, _)
isdescendant(tree, node, types) ==
    IF node = 0 THEN FALSE
    ELSE IF tree[node].type \in types THEN TRUE
    ELSE isdescendant(tree, tree[node].parent, types)

\* variant: only the parent's own type is looked at, not its ancestors
text_not_in_literal_parent_only(tree, node) ==
    /\ tree[node].type = "Text"
    /\ tree[tree[node].parent].type \notin Excluded

text_not_in_literal(tree, node) ==
    /\ tree[node].type = "Text"
    /\ ~isdescendant(tree, tree[node].parent, Excluded)

\* doctree.traverse(text_not_in_literal): the list of the matching nodes in
\* document order, built before the loop runs
RECURSIVE traverse(_, _)
RECURSIVE traverse_children(_, _)
traverse(tree, node) ==
    (IF text_not_in_literal(tree, node) THEN <<node>> ELSE <<>>)
    \o traverse_children(tree, tree[node].children)
traverse_children(tree, children) ==
    IF children = <<>> THEN <<>>
    ELSE traverse(tree, Head(children)) \o traverse_children(tree, Tail(children))

\* the text of the paragraph inside the marker that system_message() builds
system_message_text(vmsg) ==
    <<vmsg.error_type, ":", " ">> \o vmsg.target_text \o <<" ", "-", ">", " ">>
    \o vmsg.suggestion_text

\* Element.__iadd__: where the new child goes among the children
children_with(children, child) == Append(children, child)

\* node.parent += system_message(msg, docname, msg.lineno): the marker, the
\* paragraph it holds and the paragraph's Text are the three new nodes
add_system_message(tree, node, vmsg, docname) ==
    LET parent == tree[node].parent
        sm == Len(tree) + 1
    IN  [tree EXCEPT ![parent].children = children_with(@, sm)]
        \o << [Node("system_message", parent, <<sm + 1>>, <<>>, <<>>, None)
                 EXCEPT !.attributes = [type |-> "WARNING", level |-> 2,
                                        source |-> docname, lineno |-> vmsg.lineno]],
              Node("paragraph", sm, <<sm + 2>>, <<>>, <<>>, None),
              Node("Text", sm + 1, <<>>, system_message_text(vmsg), <<>>, None) >>

RECURSIVE add_system_messages(_, _, _, _)
add_system_messages(tree, node, msgs, docname) ==
    IF msgs = <<>> THEN tree
    ELSE add_system_messages(add_system_message(tree, node, Head(msgs), docname),
                             node, Tail(msgs), docname)

\* logger_method('sphinx_term_validator: %s', msg, location=location)
log_record(config, vmsg, docname) ==
    [level |-> config.term_validator_loglevel,
     msg |-> vmsg,
     location |-> [docpath |-> <<"doc2path", docname>>, lineno |-> vmsg.lineno,
                   start_col |-> vmsg.start_col, end_col |-> vmsg.end_col]]

\* variant: the test of term_validator_restrict_embed_warning is inverted
validator_step_inverted(run, config, words, node, k, docname) ==
    LET msgs == call_validator(k, run.doctree, node, words)
    IN  [logged |-> run.logged \o [i \in 1..Len(msgs) |-> log_record(config, msgs[i], docname)],
         doctree |-> IF config.term_validator_restrict_embed_warning
                     THEN add_system_messages(run.doctree, node, msgs, docname)
                     ELSE run.doctree]

\* one pass of the inner loop: validator k on node, on the run so far
validator_step(run, config, words, node, k, docname) ==
    LET msgs == call_validator(k, run.doctree, node, words)
    IN  [logged |-> run.logged \o [i \in 1..Len(msgs) |-> log_record(config, msgs[i], docname)],
         doctree |-> IF ~config.term_validator_restrict_embed_warning
                     THEN add_system_messages(run.doctree, node, msgs, docname)
                     ELSE run.doctree]

RECURSIVE validator_loop(_, _, _, _, _, _)
validator_loop(run, config, words, node, validators, docname) ==
    IF validators = <<>> THEN run
    ELSE validator_loop(validator_step(run, config, words, node, Head(validators), docname),
                        config, words, node, Tail(validators), docname)

RECURSIVE node_loop(_, _, _, _, _, _)
node_loop(run, config, words, nodes, validators, docname) ==
    IF nodes = <<>> THEN run
    ELSE node_loop(validator_loop(run, config, words, Head(nodes), validators, docname),
                   config, words, Tail(nodes), validators, docname)

\* doctree_resolved(app, doctree, docname): the exception raised ("" for
\* none), NG_WORDS, the tree and the records logged when it returns
doctree_resolved(fs, words, config, tree, docname) ==
    LET validators == enabled_validators(config)
        load == load_ng_word_dic(fs, words, config.term_validator_ng_word_rule_file)
        run == node_loop([logged |-> <<>>, doctree |-> tree], config, load.NG_WORDS,
                         traverse(tree, 1), validators, docname)
    IN  IF load.raised # ""
        THEN [raised |-> load.raised, NG_WORDS |-> load.NG_WORDS,
              doctree |-> tree, logged |-> <<>>]
        ELSE [raised |-> "", NG_WORDS |-> load.NG_WORDS,
              doctree |-> run.doctree, logged |-> run.logged]

\* ============================================================== state

VARIABLES
    NG_WORDS,      \* the module's list of (finder, ng, good)
    fs,            \* the file system the dictionary is read from
    config,        \* app.config
    doctree,       \* the tree of the document at hand
    phase,         \* "parsed": the host has built doctree; "resolved": the
                   \* handler has run on it; "loaded": the dictionary has
                   \* been loaded on its own; "validated": one rule has run
    raised,        \* the exception the last run of the handler ended with
    logged,        \* the records the last run gave to the logger, in order
    msgs,          \* the list a rule called on its own returned
    applied,       \* the function that was called on its own, "" for none
    before,        \* history: doctree as the last run found it
    words_before,  \* history: NG_WORDS as the last run found it
    file_read      \* history: the dictionary file as the last run found it

vars == <<NG_WORDS, fs, config, doctree, phase, raised, logged, msgs, applied,
          before, words_before, file_read>>

docname == "index"

Flags == {VALIDATORS[i] : i \in 1..Len(VALIDATORS)}

\* the values setup() registers
DefaultConfig ==
    [k \in Flags |-> TRUE]
    @@ [term_validator_ng_word_rule_file |-> "None",
        term_validator_loglevel |-> "warning",
        term_validator_restrict_embed_warning |-> FALSE]

rule_file_of(cfg) ==
    IF cfg.term_validator_ng_word_rule_file = "None" THEN BASEDIR_rule_dic
    ELSE cfg.term_validator_ng_word_rule_file

\* ---------------------------------------------------------- documents

Line(s) == s \o <<"nl">>

\* a paragraph with a text and an emphasised text
DocInline(t1, t2) ==
    << Node("document", 0, <<2>>, <<>>, <<>>, None),
       Node("paragraph", 1, <<3, 4>>, <<>>, t1 \o <<"*">> \o t2 \o <<"*">>, 3),
       Node("Text", 2, <<>>, t1, <<>>, None),
       Node("emphasis", 2, <<5>>, <<>>, <<"*">> \o t2 \o <<"*">>, None),
       Node("Text", 4, <<>>, t2, <<>>, None) >>

\* a todo directive holding a paragraph, before a plain paragraph
DocTodo(t1, t2) ==
    << Node("document", 0, <<2, 5>>, <<>>, <<>>, None),
       Node("todo_node", 1, <<3>>, <<>>, <<>>, 1),
       Node("paragraph", 2, <<4>>, <<>>, t1, 3),
       Node("Text", 3, <<>>, t1, <<>>, None),
       Node("paragraph", 1, <<6>>, <<>>, t2, 5),
       Node("Text", 5, <<>>, t2, <<>>, None) >>

\* a paragraph with an inline literal between two texts, in a section
DocLiteral(t1, t2) ==
    << Node("document", 0, <<2>>, <<>>, <<>>, None),
       Node("section", 1, <<3>>, <<>>, <<>>, None),
       Node("paragraph", 2, <<4, 6>>, <<>>, <<"bq", "bq">> \o t1 \o <<"bq", "bq">> \o t2, 7),
       Node("literal", 3, <<5>>, <<>>, <<"bq", "bq">> \o t1 \o <<"bq", "bq">>, None),
       Node("Text", 4, <<>>, t1, <<>>, None),
       Node("Text", 3, <<>>, t2, <<>>, None) >>

\* the texts of the documents: half-width kana with two parenthesised wide
\* strings, marks after wide text, two numbers with units, and a plain word
TextPool ==
    { <<"K", "(", "W", ")", "a", "(", "X", ")">>,
      <<"W", "!", "(", "X", ")", ".">>,
      <<" ", "1", "m", " ", " ", "2", "a", " ">>,
      <<"t">> }

Documents ==
    {DocInline(t1, t2) : t1 \in TextPool, t2 \in TextPool}
    \cup {DocTodo(t1, t2) : t1 \in TextPool, t2 \in TextPool}
    \cup {DocLiteral(t1, t2) : t1 \in TextPool, t2 \in TextPool}

\* the dictionary shipped beside the module in the runs of Spec
RuleDic ==
    << <<"#", "a", "tab", "h", "nl">>,
       <<"a", "tab", "h", "nl">>,
       <<"nl">>,
       <<"X", "|", "W", "tab", " ", "m", "nl">> >>

Configs ==
    {f @@ [DefaultConfig EXCEPT !.term_validator_restrict_embed_warning = r] :
        r \in BOOLEAN, f \in [Flags -> BOOLEAN]}

\* -------------------------------------------------------------- actions

\* The host emits doctree-resolved for the document it has parsed.
DoctreeResolved ==
    /\ phase = "parsed"
    /\ LET r == doctree_resolved(fs, NG_WORDS, config, doctree, docname)
       IN  /\ NG_WORDS' = r.NG_WORDS
           /\ doctree' = r.doctree
           /\ logged' = r.logged
           /\ raised' = r.raised
    /\ phase' = "resolved"
    /\ before' = doctree
    /\ words_before' = NG_WORDS
    /\ file_read' = fs[rule_file_of(config)]
    /\ UNCHANGED <<fs, config, msgs, applied>>

\* The host reads and parses the next document of the build.
ReadDocumentFrom(docs) ==
    /\ phase = "resolved"
    /\ \E doc \in docs : doctree' = doc /\ before' = doc
    /\ phase' = "parsed"
    /\ raised' = ""
    /\ logged' = <<>>
    /\ words_before' = NG_WORDS
    /\ file_read' = Missing
    /\ UNCHANGED <<NG_WORDS, fs, config, msgs, applied>>

ReadDocument == ReadDocumentFrom(Documents)

Init ==
    /\ NG_WORDS = <<>>
    /\ fs = [p \in {BASEDIR_rule_dic} |-> File(RuleDic)]
    /\ config \in Configs
    /\ doctree \in Documents
    /\ phase = "parsed"
    /\ raised = ""
    /\ logged = <<>>
    /\ msgs = <<>>
    /\ applied = ""
    /\ before = doctree
    /\ words_before = <<>>
    /\ file_read = Missing

Next == DoctreeResolved \/ ReadDocument

Spec == Init /\ [][Next]_vars

\* ------------------------------------- the handler and the dictionary
\* SpecDic: the builds of one process, with the default configuration but
\* for the dictionary path and the embedding of warnings; the user edits,
\* removes and restores the dictionary files between the documents.

Paths == {BASEDIR_rule_dic, "my.dic"}

FileContents ==
    { Missing,
      File(<< <<"#", "a", "tab", "h", "nl">>, <<"nl">> >>),
      File(<< <<"a", "tab", "h", "nl">> >>),
      File(<< <<"#", "nl">>, <<"X", "|", "W", "tab", " ", "m", "nl">>, <<"t", "nl">> >>),
      File(<< <<"a", "tab", "h", "nl">>, <<"(", "tab", "m", "nl">> >>) }

DocumentsDic ==
    { DocInline(<<"W", "!", "a">>, <<"t">>), DocTodo(<<"a">>, <<"X">>) }

ReadDocumentDic == ReadDocumentFrom(DocumentsDic)

WriteFile ==
    /\ \E p \in Paths, c \in FileContents \ {Missing} : fs' = [fs EXCEPT ![p] = c]
    /\ UNCHANGED <<NG_WORDS, config, doctree, phase, raised, logged, msgs, applied,
                   before, words_before, file_read>>

RemoveFile ==
    /\ \E p \in Paths : fs[p].exists /\ fs' = [fs EXCEPT ![p] = Missing]
    /\ UNCHANGED <<NG_WORDS, config, doctree, phase, raised, logged, msgs, applied,
                   before, words_before, file_read>>

\* conf.py is edited: the next document is built with another dictionary path
Configure ==
    /\ phase = "resolved"
    /\ \E f \in {"None", "my.dic"} :
          /\ f # config.term_validator_ng_word_rule_file
          /\ config' = [config EXCEPT !.term_validator_ng_word_rule_file = f]
    /\ UNCHANGED <<NG_WORDS, fs, doctree, phase, raised, logged, msgs, applied,
                   before, words_before, file_read>>

InitDic ==
    /\ NG_WORDS = <<>>
    /\ fs \in [Paths -> FileContents]
    /\ \E f \in {"None", "my.dic"}, r \in BOOLEAN :
          config = [DefaultConfig EXCEPT !.term_validator_ng_word_rule_file = f,
                                         !.term_validator_restrict_embed_warning = r]
    /\ doctree \in DocumentsDic
    /\ phase = "parsed"
    /\ raised = ""
    /\ logged = <<>>
    /\ msgs = <<>>
    /\ applied = ""
    /\ before = doctree
    /\ words_before = <<>>
    /\ file_read = Missing

NextDic == DoctreeResolved \/ ReadDocumentDic \/ WriteFile \/ RemoveFile \/ Configure

SpecDic == InitDic /\ [][NextDic]_vars

\* ============================================================ properties

restricted == config.term_validator_restrict_embed_warning
ran_ok == phase = "resolved" /\ raised = ""

error_type_of(k) ==
    CASE k = "term_validator_half_width_katakana" -> "Wide ascii, Wide number or Half kana"
      [] k = "term_validator_parenthesis" -> "Half parenthesis include Wide string"
      [] k = "term_validator_question_exclamation" -> "Half \"!\", \"?\" after full-width char"
      [] k = "term_validator_punctuation_mark" -> "ASCII punctuation mark"
      [] k = "term_validator_space_in_number_of_unit" -> "Space in number of unit"
      [] k = "term_validator_ng_words" -> "NG word"

rule_index(error_type) ==
    CHOOSE i \in 1..Len(VALIDATORS) : error_type_of(VALIDATORS[i]) = error_type

RECURSIVE ancestors(_, _)
ancestors(tree, node) ==
    IF tree[node].parent = 0 THEN {}
    ELSE {tree[node].parent} \cup ancestors(tree, tree[node].parent)

\* a text node the handler is to validate
candidate(tree, node) ==
    /\ tree[node].type = "Text"
    /\ \A a \in ancestors(tree, node) : tree[a].type \notin Excluded

logged_for(node, k) ==
    SelectSeq(logged, LAMBDA r : r.msg.node = node /\ r.msg.error_type = error_type_of(k))

msgs_of(records) == [i \in 1..Len(records) |-> records[i].msg]

\* C1: when a run of doctree_resolved returns, the records given to the
\* logger for a node and a rule are the diagnostics that rule returns on that
\* node of the tree as the run found it, each once and in order, if the rule
\* is enabled and the node is a text node with no literal, literal_block, raw,
\* comment or todo ancestor; for a disabled rule, any other node and every
\* node the run inserted there is none; annotation suppressed or not.
C1_LoggedAreTheDiagnostics ==
    ran_ok =>
        /\ \A i \in 1..Len(logged) :
              /\ logged[i].msg.node \in 1..Len(doctree)
              /\ \E k \in Flags : logged[i].msg.error_type = error_type_of(k)
        /\ \A node \in 1..Len(doctree), k \in Flags :
              msgs_of(logged_for(node, k)) =
                  IF node <= Len(before) /\ candidate(before, node) /\ config[k]
                  THEN call_validator(k, before, node, NG_WORDS)
                  ELSE <<>>

\* a run that inserted markers, with the kana rule disabled on a text that
\* holds half-width kana, and a text that breaks rules inside a todo
C1_Witness ==
    /\ ran_ok
    /\ ~restricted
    /\ ~config.term_validator_half_width_katakana
    /\ \A k \in Flags \ {"term_validator_half_width_katakana"} : config[k]
    /\ before = DocTodo(<<"W", "!", "(", "X", ")", ".">>,
                        <<"K", "(", "W", ")", "a", "(", "X", ")">>)
    /\ Len(logged) >= 4
    /\ Len(doctree) > Len(before)
    /\ \E n \in (Len(before) + 1)..Len(doctree) :
          doctree[n].type = "Text" /\ candidate(doctree, n)

is_marker(tree, n) == tree[n].type = "system_message"

\* C2: when a run returns with annotation suppressed the tree is the tree the
\* run found; otherwise the tree has gained, for the j-th record logged, one
\* system_message (with its paragraph and text) that is a child of the parent
\* of the record's text node, and nothing else: every node the run found
\* keeps its fields, and its children keep their places before the new ones.
C2_OnlyMarkersAdded ==
    ran_ok =>
        IF restricted THEN doctree = before
        ELSE /\ Len(doctree) = Len(before) + 3 * Len(logged)
             /\ \A n \in 1..Len(before) :
                   /\ [doctree[n] EXCEPT !.children = before[n].children] = before[n]
                   /\ SelectSeq(doctree[n].children, LAMBDA c : c <= Len(before))
                          = before[n].children
                   /\ \A i \in 1..Len(doctree[n].children) :
                         doctree[n].children[i] > Len(before)
                             => is_marker(doctree, doctree[n].children[i])
             /\ Cardinality({n \in 1..Len(doctree) : is_marker(doctree, n)})
                    = Cardinality({n \in 1..Len(before) : is_marker(before, n)}) + Len(logged)
             /\ \A j \in 1..Len(logged) :
                   LET sm == Len(before) + 3 * (j - 1) + 1
                       parent == before[logged[j].msg.node].parent
                   IN  /\ is_marker(doctree, sm)
                       /\ doctree[sm].parent = parent
                       /\ Cardinality({i \in 1..Len(doctree[parent].children) :
                                          doctree[parent].children[i] = sm}) = 1
                       /\ doctree[sm + 2].text = system_message_text(logged[j].msg)

\* a run that added several markers under a paragraph of two children
C2_Witness ==
    /\ ran_ok
    /\ ~restricted
    /\ before = DocInline(<<"W", "!", "(", "X", ")", ".">>, <<"t">>)
    /\ Len(logged) >= 3
    /\ Len(doctree[2].children) >= 5

\* the place of a node in the tree: the indexes that lead to it from the root
RECURSIVE path_of(_, _)
path_of(tree, node) ==
    IF tree[node].parent = 0 THEN <<>>
    ELSE LET siblings == tree[tree[node].parent].children
         IN  path_of(tree, tree[node].parent)
             \o <<CHOOSE i \in 1..Len(siblings) : siblings[i] = node>>

\* a comes before b when the tree is enumerated: a parent before its
\* children, the children in their order
doc_before(tree, a, b) ==
    LET pa == path_of(tree, a)
        pb == path_of(tree, b)
    IN  \E k \in 0..Len(pa) :
           /\ k <= Len(pb)
           /\ SubSeq(pa, 1, k) = SubSeq(pb, 1, k)
           /\ \/ k = Len(pa) /\ k < Len(pb)
              \/ k < Len(pa) /\ k < Len(pb) /\ pa[k + 1] < pb[k + 1]

\* where the suggestion first departs from the target, None when nowhere
first_change(m) ==
    LET ds == {i \in 1..Len(m.target_text) :
                  i > Len(m.suggestion_text) \/ m.target_text[i] # m.suggestion_text[i]}
    IN  IF ds = {} THEN None ELSE CHOOSE i \in ds : \A j \in ds : i <= j

\* the targets of a and b lie in the text in this order, left to right
targets_in_order(text, a, b, apart) ==
    \E p \in 0..Len(text), q \in 0..Len(text) :
       /\ StartsAt(text, p, a.target_text)
       /\ StartsAt(text, q, b.target_text)
       /\ p + (IF apart THEN Len(a.target_text) ELSE 0) <= q

\* a, then b, are what two rules of NG_WORDS give, the one of a listed first
rules_in_order(text, a, b) ==
    \E x \in 1..Len(NG_WORDS), y \in 1..Len(NG_WORDS) :
       /\ x < y
       /\ re_search(NG_WORDS[x].finder, text) = [found |-> TRUE, group0 |-> a.target_text]
       /\ NG_WORDS[x].good = a.suggestion_text
       /\ re_search(NG_WORDS[y].finder, text) = [found |-> TRUE, group0 |-> b.target_text]
       /\ NG_WORDS[y].good = b.suggestion_text

changes_in_order(a, b) ==
    (first_change(a) # None /\ first_change(b) # None) => first_change(a) <= first_change(b)

\* the order of two records, a logged before b, of one rule on one node
within_rule(a, b, ng_by_position) ==
    LET text == before[a.node].text
    IN  CASE a.error_type = "Half parenthesis include Wide string" -> changes_in_order(a, b)
          [] a.error_type = "Space in number of unit" -> targets_in_order(text, a, b, TRUE)
          [] a.error_type = "NG word" ->
                IF ng_by_position THEN targets_in_order(text, a, b, FALSE)
                ELSE rules_in_order(text, a, b)
          [] OTHER -> FALSE

ordered(ng_by_position) ==
    ran_ok =>
        \A i \in 1..Len(logged), j \in 1..Len(logged) :
            i < j =>
                LET a == logged[i].msg
                    b == logged[j].msg
                IN  /\ a.node # b.node => doc_before(before, a.node, b.node)
                    /\ a.node = b.node => rule_index(a.error_type) <= rule_index(b.error_type)
                    /\ (a.node = b.node /\ a.error_type = b.error_type)
                           => within_rule(a, b, ng_by_position)

\* C3 as stated: the records of a run are ordered by the place of their node
\* in the tree, then by the fixed order of the rules, then, within a rule on
\* a node, by the position of the match in the text, left to right, for the
\* forbidden-word rule as for the others.
C3_OrderedByPosition == ordered(TRUE)

\* C3, amended: ordered by node, then by rule, then within the parenthesis
\* and number-unit rules by position, left to right, and within the
\* forbidden-word rule by the order of the rules in the dictionary.
C3_OrderedByDictionary == ordered(FALSE)

\* a run that logged for two nodes, for several rules on one node, twice for
\* the parenthesis rule, and for two forbidden words of which the one listed
\* first lies further right
C3_Witness ==
    /\ ran_ok
    /\ before = DocInline(<<"K", "(", "W", ")", "a", "(", "X", ")">>,
                          <<" ", "1", "m", " ", " ", "2", "a", " ">>)
    /\ \A k \in Flags : config[k]
    /\ Len(logged_for(3, "term_validator_parenthesis")) = 2
    /\ Len(logged_for(5, "term_validator_space_in_number_of_unit")) = 2
    /\ LET ng == msgs_of(logged_for(3, "term_validator_ng_words"))
       IN  /\ Len(ng) = 2
           /\ str_find(before[3].text, ng[1].target_text)
                  > str_find(before[3].text, ng[2].target_text)

\* a line of a dictionary file that holds a rule: not empty, no `#` in
\* front, a tab in it
well_formed(line) == line # <<>> /\ line[1] # "#" /\ "tab" \in {line[i] : i \in 1..Len(line)}

entries_of(file) ==
    {<<str_strip(split_rule_line(file.lines[i])[1]), str_strip(split_rule_line(file.lines[i])[2])>> :
        i \in {i \in 1..Len(file.lines) : well_formed(file.lines[i])}}

\* C4: when a run returns, whatever ran before it, NG_WORDS holds the rules
\* of the well-formed lines of the dictionary file the run read at its start,
\* all of them and no other, and each forbidden-word record logged is the
\* match of one of them.
C4_RulesAreThoseOfTheFileRead ==
    ran_ok =>
        /\ file_read.exists
        /\ {<<NG_WORDS[i].ng, NG_WORDS[i].good>> : i \in 1..Len(NG_WORDS)} = entries_of(file_read)
        /\ Len(NG_WORDS) = Cardinality({i \in 1..Len(file_read.lines) : well_formed(file_read.lines[i])})
        /\ \A i \in 1..Len(logged) :
              logged[i].msg.error_type = "NG word" =>
                  \E e \in entries_of(file_read) :
                     /\ e[2] = logged[i].msg.suggestion_text
                     /\ re_search(split_alternatives(e[1]), before[logged[i].msg.node].text)
                            = [found |-> TRUE, group0 |-> logged[i].msg.target_text]

\* a run that found rules of another dictionary in NG_WORDS, replaced them
\* all, and logged a forbidden word
C4_Witness ==
    /\ ran_ok
    /\ words_before # <<>>
    /\ NG_WORDS # <<>>
    /\ \A i \in 1..Len(words_before), j \in 1..Len(NG_WORDS) : words_before[i] # NG_WORDS[j]
    /\ \E i \in 1..Len(logged) : logged[i].msg.error_type = "NG word"

only_blank_and_comment(file) ==
    \A i \in 1..Len(file.lines) : file.lines[i] = <<"nl">> \/ file.lines[i][1] = "#"

\* the diagnostics the rules other than the forbidden-word rule give on the tree
RECURSIVE plain_findings(_, _)
plain_findings(tree, node) ==
    IF node = 0 THEN 0
    ELSE plain_findings(tree, node - 1)
         + (IF candidate(tree, node)
            THEN Len(validate_half_width_katakana(tree, node))
                 + Len(validate_question_exclamation(tree, node))
            ELSE 0)

\* C5: a run that finds no dictionary file at the configured path ends with
\* the file error, has logged nothing, has left the tree as it was and
\* NG_WORDS as it was (not empty in place of it); a run that finds a file of
\* blank and comment lines only returns with NG_WORDS empty.
C5_MissingFileIsFatal ==
    phase = "resolved" =>
        /\ ~file_read.exists =>
              /\ raised = "FileNotFoundError"
              /\ logged = <<>>
              /\ doctree = before
              /\ NG_WORDS = words_before
        /\ (file_read.exists /\ only_blank_and_comment(file_read)) =>
              /\ raised = ""
              /\ NG_WORDS = <<>>

\* a run that held rules, found no file, and had a text to report on
C5_Witness ==
    /\ phase = "resolved"
    /\ ~file_read.exists
    /\ raised = "FileNotFoundError"
    /\ words_before # <<>>
    /\ ~restricted
    /\ plain_findings(before, Len(before)) > 0

\* ------------------------------------------------- the rules on their own
\* A rule or the diagnostic's constructor called once on the text node of a
\* one-paragraph document; the texts are all the strings over an alphabet
\* up to a length.

TextTree(text, rawsource, line) ==
    << Node("document", 0, <<2>>, <<>>, <<>>, None),
       Node("paragraph", 1, <<3>>, <<>>, rawsource, line),
       Node("Text", 2, <<>>, text, <<>>, None) >>

Strings(alphabet, n) == UNION {[1..k -> alphabet] : k \in 0..n}

InitOn(trees, files) ==
    /\ NG_WORDS = <<>>
    /\ fs \in files
    /\ config = DefaultConfig
    /\ doctree \in trees
    /\ phase = "parsed"
    /\ raised = ""
    /\ logged = <<>>
    /\ msgs = <<>>
    /\ applied = ""
    /\ before = doctree
    /\ words_before = <<>>
    /\ file_read = Missing

Call(name, result) ==
    /\ msgs' = result
    /\ applied' = name
    /\ phase' = "validated"
    /\ UNCHANGED <<NG_WORDS, fs, config, doctree, raised, logged, before, words_before, file_read>>

DefaultFiles == {[p \in {BASEDIR_rule_dic} |-> File(RuleDic)]}

\* SpecParen: validate_parenthesis
MaxParenLen == 6
ParenTexts == Strings({"(", ")", "W", "a"}, MaxParenLen)

ValidateParenthesis ==
    /\ phase = "parsed"
    /\ Call("validate_parenthesis", validate_parenthesis(doctree, 3))

SpecParen ==
    InitOn({TextTree(t, t, 1) : t \in ParenTexts}, DefaultFiles) /\ [][ValidateParenthesis]_vars

\* SpecMarks: validate_question_exclamation
MaxMarksLen == 5
MarksTexts == Strings({"W", "X", "!", "?", "a"}, MaxMarksLen)

ValidateQuestionExclamation ==
    /\ phase = "parsed"
    /\ Call("validate_question_exclamation", validate_question_exclamation(doctree, 3))

SpecMarks ==
    InitOn({TextTree(t, t, 1) : t \in MarksTexts}, DefaultFiles)
    /\ [][ValidateQuestionExclamation]_vars

\* SpecGate: validate_question_exclamation and validate_punctuation_mark
MaxGateLen == 4
GateTexts == Strings({"a", "W", "cb", "!", ".", ",", " ", "nl"}, MaxGateLen)

ValidatePunctuationMark ==
    /\ phase = "parsed"
    /\ Call("validate_punctuation_mark", validate_punctuation_mark(doctree, 3))

NextGate == ValidateQuestionExclamation \/ ValidatePunctuationMark

SpecGate == InitOn({TextTree(t, t, 1) : t \in GateTexts}, DefaultFiles) /\ [][NextGate]_vars

\* SpecLoc: ValidationErrorMessage() with the node's text for a target, in a
\* paragraph of any raw source
MaxRawLen == 5
MaxTargetLen == 2
RawSources == Strings({"a", "b", "nl"}, MaxRawLen)
Targets == Strings({"a", "b"}, MaxTargetLen) \ {<<>>}

Locate ==
    /\ phase = "parsed"
    /\ Call("ValidationErrorMessage",
            <<ValidationErrorMessage(doctree, "NG word", 3, astext(doctree, 3), <<"h">>)>>)

SpecLoc ==
    InitOn({TextTree(t, r, l) : t \in Targets, r \in RawSources, l \in {None, 0, 3}},
           DefaultFiles)
    /\ [][Locate]_vars

\* SpecNg: load_ng_word_dic, then validate_ng_words
MaxDicLines == 2
MaxNgLen == 3
DicLines ==
    { <<"a", "tab", "h", "nl">>,
      <<"a", " ", "tab", "h", "nl">>,
      <<"W", "|", "a", "tab", "m", "nl">>,
      <<"#", "a", "tab", "h", "nl">> }
NgTexts == Strings({"a", "W"}, MaxNgLen)

LoadNgWordDic ==
    /\ phase = "parsed"
    /\ LET r == load_ng_word_dic(fs, NG_WORDS, config.term_validator_ng_word_rule_file)
       IN  NG_WORDS' = r.NG_WORDS /\ raised' = r.raised
    /\ phase' = "loaded"
    /\ file_read' = fs[rule_file_of(config)]
    /\ UNCHANGED <<fs, config, doctree, logged, msgs, applied, before, words_before>>

ValidateNgWords ==
    /\ phase = "loaded"
    /\ raised = ""
    /\ Call("validate_ng_words", validate_ng_words(doctree, 3, NG_WORDS))

NextNg == LoadNgWordDic \/ ValidateNgWords

SpecNg ==
    InitOn({TextTree(t, t, 1) : t \in NgTexts},
           {[p \in {BASEDIR_rule_dic} |-> File(d)] : d \in Strings(DicLines, MaxDicLines)})
    /\ [][NextNg]_vars

\* ---------------------------------------------- properties of the rules

the_text == astext(doctree, 3)

\* C6 as stated: a diagnostic whose target occurs in a line of the raw
\* source of the enclosing block points at the first such line: start_col is
\* the 1-based offset of the target in it and lineno is the block's line plus
\* the index of that line, also when several lines hold the target; when no
\* line holds it, the columns stay unset and lineno is the node-level line.
C6_FirstLineOfRawSource ==
    applied = "ValidationErrorMessage" =>
        LET m == msgs[1]
            base == py_or(py_or(doctree[3].line, doctree[2].line), doctree[1].line)
            lines == splitlines(doctree[2].rawsource)
            holds == {i \in 1..Len(lines) : str_find(lines[i], m.target_text) >= 0}
            first == CHOOSE i \in holds : \A j \in holds : i <= j
        IN  IF holds = {}
            THEN m.start_col = None /\ m.end_col = None /\ m.lineno = base
            ELSE /\ m.start_col = str_find(lines[first], m.target_text) + 1
                 /\ m.end_col = m.start_col + Len(m.target_text)
                 /\ m.lineno = IF base = None THEN None ELSE base + (first - 1)

is_wide(term) == \E i \in 1..Len(term) : term[i] \in WideChars

\* the `(...)` spans of a text, left to right: <<index of `(`, index of `)`>>
RECURSIVE spans_from(_, _)
spans_from(text, i) ==
    IF i > Len(text) THEN <<>>
    ELSE LET closes == {j \in (i + 1)..Len(text) : text[j] = ")"}
             close == CHOOSE j \in closes : \A k \in closes : j <= k
         IN  IF text[i] = "(" /\ closes # {}
             THEN << <<i, close>> >> \o spans_from(text, close + 1)
             ELSE spans_from(text, i + 1)

wide_spans(text) ==
    SelectSeq(spans_from(text, 1), LAMBDA sp : is_wide(SubSeq(text, sp[1] + 1, sp[2] - 1)))

with_fullwidth(text, sp) == [text EXCEPT ![sp[1]] = "FULL(", ![sp[2]] = "FULL)"]

\* C9 as stated: on a text with k `(...)` spans that hold a wide character
\* the parenthesis rule returns k diagnostics; the first has the text for a
\* target and each next one the suggestion of the one before; the suggestion
\* of the i-th is its target with the i-th of those spans, and only it, in
\* fullwidth parentheses, so no suggestion equals its target; the node's text
\* is not changed.
C9_OneSpanPerDiagnostic ==
    applied = "validate_parenthesis" =>
        LET spans == wide_spans(the_text)
        IN  /\ Len(msgs) = Len(spans)
            /\ doctree = before
            /\ \A i \in 1..Len(msgs) :
                  /\ msgs[i].target_text = IF i = 1 THEN the_text ELSE msgs[i - 1].suggestion_text
                  /\ msgs[i].suggestion_text = with_fullwidth(msgs[i].target_text, spans[i])
                  /\ msgs[i].suggestion_text # msgs[i].target_text

\* the mark at i belongs to a run of `!`/`?` that follows wide-script text
after_wide_script(text, i) ==
    /\ text[i] \in Marks
    /\ \E j \in 1..(i - 1) :
          /\ text[j] \in WideScript
          /\ \A k \in (j + 1)..i : text[k] \in Marks

converted(text) ==
    [i \in 1..Len(text) |->
        IF after_wide_script(text, i)
        THEN (IF text[i] = "!" THEN "FULL!" ELSE "FULL?")
        ELSE text[i]]

\* C10 as stated: on a text that holds a wide character the question and
\* exclamation rule returns at most one diagnostic, and its suggestion is the
\* text with every run of `!`/`?` that follows wide-script characters made
\* fullwidth in full and nothing else changed (none when there is no such
\* run), also when one wide-script run is followed by different runs of marks.
C10_EveryRunConverted ==
    (applied = "validate_question_exclamation" /\ is_wide(the_text)) =>
        /\ Len(msgs) <= 1
        /\ msgs = <<>> => converted(the_text) = the_text
        /\ msgs # <<>> =>
              /\ msgs[1].target_text = the_text
              /\ msgs[1].suggestion_text = converted(the_text)

\* C7: on a text whose display width is its length the question and
\* exclamation rule and the punctuation-mark rule return nothing, whatever
\* periods, commas, `!` or `?` it holds.
C7_NarrowTextIsLeftAlone ==
    (applied \in {"validate_question_exclamation", "validate_punctuation_mark"}
        /\ column_width(the_text) = Len(the_text))
    => msgs = <<>>

\* the punctuation rule was run on a narrow text with a period and a comma
\* before spaces
C7_Witness ==
    /\ applied = "validate_punctuation_mark"
    /\ the_text = <<"a", ".", " ", ",">>
    /\ punctuation_mark_text(the_text) # the_text
    /\ msgs = <<>>

\* the rules loaded, one for each pattern and suggestion
distinct_rules == {<<NG_WORDS[i].ng, NG_WORDS[i].good>> : i \in 1..Len(NG_WORDS)}

matching_rules ==
    {r \in distinct_rules : re_search(split_alternatives(r[1]), the_text).found}

\* C8 as stated: on a text that is not empty the forbidden-word rule returns
\* one diagnostic for each distinct rule loaded whose pattern matches, with
\* the leftmost match for a target and the rule's suggestion, and none for
\* the others: never two for one (pattern, suggestion), however often the
\* entry stands in the dictionary.
C8_OnePerDistinctRule ==
    (applied = "validate_ng_words" /\ the_text # <<>>) =>
        /\ Len(msgs) = Cardinality(matching_rules)
        /\ \A r \in matching_rules :
              Cardinality({i \in 1..Len(msgs) :
                              /\ msgs[i].suggestion_text = r[2]
                              /\ msgs[i].target_text
                                     = re_search(split_alternatives(r[1]), the_text).group0}) >= 1

====
